---------------------------- MODULE Spec2Model ----------------------------
(***************************************************************************)
(* Job orchestration of the DeepFakeShield backend: the analysis_jobs row  *)
(* and the three writers of it,                                            *)
(*   - the API handler start_analysis (api/routes/analysis.py),            *)
(*   - the background task simulate_analysis_pipeline                      *)
(*     (services/simulation.py),                                           *)
(*   - the Celery tasks of workers/preprocess.py and workers/inference.py. *)
(* One step of the model is one database commit (or one await of the       *)
(* handler): that is the granularity at which the writers, which run in    *)
(* different processes, interleave.                                        *)
(*                                                                         *)
(* Numbers: scores are in thousandths (500 is 0.5); progress is an exact   *)
(* fraction <<n, d>> in lowest terms.  A nullable column is <<>> (NULL) or *)
(* <<v>>.                                                                  *)
(***************************************************************************)
EXTENDS Integers, Sequences, FiniteSets, TLC

\* ------------------------------------------------------------------ bounds
MaxJobs == 2
MaxReqs == 2
MaxDispatch == 1
MaxHundreds == 2

\* ------------------------------------------------------- program constants
ProgressEvery == 100
VideoProgressEvery == 10
DefaultFps == 5
NumSimStages == 8
WVideo == 500
WAudio == 300
WLipsync == 200
AuthenticBelow == 300
LikelyFakeBelow == 600

\* ------------------------------------------------------------- TaskState
PENDING == "PENDING"
VALIDATING == "VALIDATING"
EXTRACTING == "EXTRACTING"
TRANSCRIBING == "TRANSCRIBING"
INFER_VIDEO == "INFER_VIDEO"
INFER_AUDIO == "INFER_AUDIO"
LIPSYNC == "LIPSYNC"
FUSION == "FUSION"
REPORT == "REPORT"
DONE == "DONE"
FAILED == "FAILED"

TaskState ==
    {PENDING, VALIDATING, EXTRACTING, TRANSCRIBING, INFER_VIDEO, INFER_AUDIO,
     LIPSYNC, FUSION, REPORT, DONE, FAILED}

STATE_TRANSITIONS ==
    [s \in TaskState |->
        CASE s = PENDING      -> {VALIDATING, FAILED}
          [] s = VALIDATING   -> {EXTRACTING, FAILED}
          [] s = EXTRACTING   -> {TRANSCRIBING, FAILED}
          [] s = TRANSCRIBING -> {INFER_VIDEO, FAILED}
          [] s = INFER_VIDEO  -> {INFER_AUDIO, FAILED}
          [] s = INFER_AUDIO  -> {LIPSYNC, FAILED}
          [] s = LIPSYNC      -> {FUSION, FAILED}
          [] s = FUSION       -> {REPORT, FAILED}
          [] s = REPORT       -> {DONE, FAILED}
          [] s = DONE         -> {}
          [] s = FAILED       -> {}]

\* The statuses start_analysis looks for: "existing pending/running job".
ActiveStatuses ==
    {PENDING, VALIDATING, EXTRACTING, TRANSCRIBING, INFER_VIDEO, INFER_AUDIO,
     LIPSYNC, FUSION, REPORT}

\* The stage list the simulation cycles through.
SimStages ==
    <<VALIDATING, EXTRACTING, TRANSCRIBING, INFER_VIDEO, INFER_AUDIO, LIPSYNC,
      FUSION, REPORT>>

\* ------------------------------------------------------------ value types
None == <<>>
Some(v) == <<v>>

RECURSIVE GCD(_, _)
GCD(a, b) == IF b = 0 THEN a ELSE GCD(b, a % b)

\* The fraction n/d (d > 0, n >= 0) in lowest terms.
Frac(n, d) == LET g == GCD(n, d) IN <<n \div g, d \div g>>
Zero == Frac(0, 1)
One == Frac(1, 1)
Half == Frac(1, 2)
FLeq(p, q) == p[1] * q[2] <= q[1] * p[2]
FMul(p, q) == Frac(p[1] * q[1], p[2] * q[2])
InUnit(p) == FLeq(Zero, p) /\ FLeq(p, One)

JobIds == 1 .. MaxJobs
Reqs == 1 .. MaxReqs
Workers == 1 .. MaxDispatch
MediaIds == {1}
MediaTypes == {"video", "audio", "image"}
\* AnalysisOptions: run_video, run_audio and run_lipsync default to true.
Modalities == {"video", "audio", "lipsync"}
OptionChoices == {Modalities, {"video", "lipsync"}, {"video"}}
\* str(e) of the exception a task raises: empty for an exception without
\* arguments, such as a bare AssertionError or TimeoutError.
ErrMsgs == {"", "error"}

\* --------------------------------------------------------------- the state
VARIABLES
    job,        \* analysis_jobs rows, by id
    created,    \* number of rows inserted so far (ids 1 .. created)
    mediaType,  \* media_items.media_type, by media id
    reports,    \* ids of the jobs that have a reports row
    req,        \* the start_analysis requests in flight
    sim,        \* the simulate_analysis_pipeline task of each job
    crun,       \* the Celery pipeline runs
    call,       \* history: the last update_job_status call and its outcome
    fusion,     \* a MultimodalFusionService object and the call made on it
    service     \* a modality service object and the call made on it

vars ==
    <<job, created, mediaType, reports, req, sim, crun, call, fusion, service>>

\* AnalysisJob: the columns and their defaults.
NoJob ==
    [exists |-> FALSE, media_id |-> 0, stage |-> PENDING, status |-> PENDING,
     progress |-> Zero, error_message |-> None, results |-> <<>>,
     overall_score |-> None, label |-> None, completed_at |-> FALSE,
     options |-> {}]

\* options = request.options.model_dump(): the set of the modalities whose
\* run_<modality> flag is true.
NewJob(m, options) ==
    [NoJob EXCEPT !.exists = TRUE, !.media_id = m, !.options = options]

IdleReq == [pc |-> "idle", media |-> 0, job |-> 0]
NoSim == [pc |-> "none", idx |-> 0]
IdleRun ==
    [pc |-> "idle", job |-> 0, attempt |-> PENDING, err |-> "",
     media_type |-> "", total |-> 0, actual |-> 0, fc |-> 0, nframes |-> 0,
     i |-> 0, has_audio |-> FALSE, v |-> 0, a |-> 0, l |-> 0]
NoCall == [job |-> 0, from |-> PENDING, to |-> PENDING, changed |-> FALSE]

\* MultimodalFusionService.DEFAULT_WEIGHTS, in hundredths.
DEFAULT_WEIGHTS == [video |-> 45, audio |-> 30, lipsync |-> 25]
\* A service constructed without weights and without a model file, on which
\* nothing has been called.
NoFusion ==
    [pc |-> "off", weights |-> DEFAULT_WEIGHTS, input |-> <<>>, pre |-> <<>>,
     raw |-> <<>>, out |-> <<>>, validation |-> <<>>, calibrated |-> <<>>,
     before |-> <<>>]

\* No modality service has been constructed.
NoService ==
    [kind |-> "none", pc |-> "off", torch |-> FALSE, cv2 |-> FALSE,
     model |-> FALSE, input |-> <<>>, pre |-> <<>>, raw |-> <<>>,
     out |-> <<>>]

\* The empty tables: no job has been created.
InitApi ==
    /\ job = [j \in JobIds |-> NoJob]
    /\ created = 0
    /\ mediaType \in [MediaIds -> MediaTypes]
    /\ reports = {}
    /\ req = [r \in Reqs |-> IdleReq]
    /\ sim = [j \in JobIds |-> NoSim]
    /\ crun = [c \in Workers |-> IdleRun]
    /\ call = NoCall
    /\ fusion = NoFusion
    /\ service = NoService

\* Job 1 as start_analysis leaves it: PENDING, with its background task
\* queued; no Celery message has been delivered yet.
InitShared ==
    /\ \E o \in OptionChoices :
          job = [j \in JobIds |-> IF j = 1 THEN NewJob(1, o) ELSE NoJob]
    /\ created = 1
    /\ mediaType \in [MediaIds -> MediaTypes]
    /\ reports = {}
    /\ req = [r \in Reqs |-> IdleReq]
    /\ sim = [j \in JobIds |-> IF j = 1 THEN [pc |-> "queued", idx |-> 0]
                                         ELSE NoSim]
    /\ crun = [c \in Workers |-> IdleRun]
    /\ call = NoCall
    /\ fusion = NoFusion
    /\ service = NoService

\* Job 1 in PENDING with exactly one pipeline about to run on it: the
\* simulation, or the Celery pipeline on worker 1.
Init ==
    /\ \E o \in OptionChoices :
          job = [j \in JobIds |-> IF j = 1 THEN NewJob(1, o) ELSE NoJob]
    /\ created = 1
    /\ mediaType \in [MediaIds -> MediaTypes]
    /\ reports = {}
    /\ req = [r \in Reqs |-> IdleReq]
    /\ call = NoCall
    /\ fusion = NoFusion
    /\ service = NoService
    /\ \/ /\ sim = [j \in JobIds |-> IF j = 1
                                       THEN [pc |-> "queued", idx |-> 0]
                                       ELSE NoSim]
          /\ crun = [c \in Workers |-> IdleRun]
       \/ /\ sim = [j \in JobIds |-> NoSim]
          /\ crun = [c \in Workers |->
                       IF c = 1
                       THEN [IdleRun EXCEPT !.pc = "validate", !.job = 1]
                       ELSE IdleRun]

\* ------------------------------------------------------ update_job_status
\* "if error:" is Python truthiness: an omitted error (None) and an empty
\* string are both false.
Truthy(error) == error # None /\ error[1] # ""

\* The row update_job_status commits: stage, status and progress are always
\* overwritten (the current row is read only to find it); with a truthy
\* error the message is stored and the status forced to FAILED.
UpdatedRow(row, stage, progress, error) ==
    IF Truthy(error)
    THEN [row EXCEPT !.stage = stage, !.status = FAILED,
                     !.progress = progress, !.error_message = error]
    ELSE [row EXCEPT !.stage = stage, !.status = stage,
                     !.progress = progress]

\* update_job_status(job_id, stage, progress, error) as one commit.
UpdateJobStatus(j, stage, progress, error) ==
    /\ job' = [job EXCEPT ![j] = UpdatedRow(job[j], stage, progress, error)]
    /\ call' = [job |-> j, from |-> job[j].stage, to |-> stage,
                changed |-> UpdatedRow(job[j], stage, progress, error) # job[j]]

\* ---------------------------------------------------------- start_analysis
\* The rows the handler's SELECT returns for a media item.
ActiveJobsOf(m) ==
    {j \in JobIds : job[j].exists /\ job[j].media_id = m
                    /\ job[j].status \in ActiveStatuses}

\* First await of the handler: the SELECT for an existing pending/running
\* job.  scalar_one_or_none() returns the row, None, or raises
\* MultipleResultsFound when more than one row matches.
StartCheck(r) ==
    /\ req[r].pc = "idle"
    /\ \E m \in MediaIds :
        LET found == ActiveJobsOf(m) IN
        req' = [req EXCEPT ![r] =
                  IF Cardinality(found) > 1
                  THEN [pc |-> "error", media |-> m, job |-> 0]
                  ELSE IF found # {}
                  THEN [pc |-> "returned", media |-> m,
                        job |-> CHOOSE j \in found : TRUE]
                  ELSE [pc |-> "create", media |-> m, job |-> 0]]
    /\ UNCHANGED <<job, created, mediaType, fusion, service, reports, sim,
                   crun, call>>

\* Second await: INSERT of the new PENDING job, commit, and the background
\* task is queued.
StartCreate(r) ==
    /\ req[r].pc = "create"
    /\ created < MaxJobs
    /\ LET j == created + 1 IN
        /\ \E o \in OptionChoices :
              job' = [job EXCEPT ![j] = NewJob(req[r].media, o)]
        /\ created' = j
        /\ sim' = [sim EXCEPT ![j] = [pc |-> "queued", idx |-> 0]]
        /\ req' = [req EXCEPT ![r] = [@ EXCEPT !.pc = "created", !.job = j]]
    /\ UNCHANGED <<mediaType, fusion, service, reports, crun, call>>

\* ------------------------------------------------ simulate_analysis_pipeline
\* The task loads the job once; every later write is a column-level UPDATE
\* of the attributes it has set.
SimBegin(j) ==
    /\ sim[j].pc = "queued"
    /\ job[j].exists
    /\ sim' = [sim EXCEPT ![j] = [pc |-> "stages", idx |-> 0]]
    /\ UNCHANGED <<job, created, mediaType, fusion, service, reports, req,
                   crun, call>>

\* One iteration of "for idx, stage in enumerate(stages)": stage, status,
\* progress = (idx + 1) / len(stages), commit.
SimStageRow(row, idx) ==
    [row EXCEPT !.stage = SimStages[idx + 1], !.status = SimStages[idx + 1],
                !.progress = Frac(idx + 1, NumSimStages)]

SimStage(j) ==
    /\ sim[j].pc = "stages"
    /\ job' = [job EXCEPT ![j] = SimStageRow(job[j], sim[j].idx)]
    /\ sim' = [sim EXCEPT ![j] =
                 IF sim[j].idx + 1 = NumSimStages
                 THEN [pc |-> "finish", idx |-> 0]
                 ELSE [pc |-> "stages", idx |-> sim[j].idx + 1]]
    /\ UNCHANGED <<created, mediaType, fusion, service, reports, req, crun,
                   call>>

\* score = uniform(0.78, 0.96) if is_fake else uniform(0.04, 0.22).
SimScores(is_fake) == IF is_fake THEN {780, 960} ELSE {40, 220}
SimLabel(is_fake) == IF is_fake THEN "LIKELY_FAKE" ELSE "AUTHENTIC"

\* The top-level keys of the results dict the simulation stores.
SimResults ==
    [k \in {"version", "pipeline", "analysis_type", "video", "audio",
            "lipsync", "segments", "technical_summary", "metadata",
            "media_quality", "frequency_analysis", "linguistic_analysis",
            "container_analysis"} |-> "simulation"]

\* What the commit after the mock results stores (lines 42-205).
\* A final write that sets the stage and the verdict and forgets the status.
SimCompleteRowNoStatus(row, is_fake, score) ==
    [row EXCEPT !.stage = DONE, !.progress = One,
                !.completed_at = TRUE, !.overall_score = Some(score),
                !.label = Some(SimLabel(is_fake)), !.results = SimResults]

SimCompleteRow(row, is_fake, score) ==
    [row EXCEPT !.stage = DONE, !.status = DONE, !.progress = One,
                !.completed_at = TRUE, !.overall_score = Some(score),
                !.label = Some(SimLabel(is_fake)), !.results = SimResults]

SimComplete(j) ==
    /\ sim[j].pc = "finish"
    /\ \E is_fake \in BOOLEAN : \E score \in SimScores(is_fake) :
        job' = [job EXCEPT ![j] = SimCompleteRow(job[j], is_fake, score)]
    /\ sim' = [sim EXCEPT ![j] = [pc |-> "report", idx |-> 0]]
    /\ UNCHANGED <<created, mediaType, fusion, service, reports, req, crun,
                   call>>

\* An exception raised between "job.stage = DONE" and the commit (while the
\* mock results are built): the handler's commit flushes the attributes set
\* so far together with status = FAILED and the message.  scored tells
\* whether overall_score and label had been assigned already.
SimFailRow(row, scored, is_fake, score, msg) ==
    LET r == [row EXCEPT !.stage = DONE, !.status = FAILED, !.progress = One,
                         !.completed_at = TRUE, !.error_message = Some(msg)]
    IN IF scored
       THEN [r EXCEPT !.overall_score = Some(score),
                      !.label = Some(SimLabel(is_fake))]
       ELSE r

SimFail(j) ==
    /\ sim[j].pc = "finish"
    /\ \E scored \in BOOLEAN, is_fake \in BOOLEAN, msg \in ErrMsgs :
        \E score \in SimScores(is_fake) :
            job' = [job EXCEPT ![j] =
                      SimFailRow(job[j], scored, is_fake, score, msg)]
    /\ sim' = [sim EXCEPT ![j] = [pc |-> "failed", idx |-> 0]]
    /\ UNCHANGED <<created, mediaType, fusion, service, reports, req, crun,
                   call>>

\* The Segment rows and the Report row are added and committed.
SimReport(j) ==
    /\ sim[j].pc = "report"
    /\ j \notin reports
    /\ reports' = reports \cup {j}
    /\ sim' = [sim EXCEPT ![j] = [pc |-> "done", idx |-> 0]]
    /\ UNCHANGED <<job, created, mediaType, fusion, service, req, crun, call>>

\* The report commit raises (the database refuses the flush): the session's
\* transaction is rolled back, so the handler's own commit raises as well
\* and nothing more is stored.
SimReportFail(j) ==
    /\ sim[j].pc = "report"
    /\ sim' = [sim EXCEPT ![j] = [pc |-> "failed", idx |-> 0]]
    /\ UNCHANGED <<job, created, mediaType, fusion, service, reports, req,
                   crun, call>>


\* ------------------------------------------------------ the Celery pipeline
\* A pipeline run is run_preprocessing_pipeline followed by
\* run_inference_pipeline on the results it returned.  Each task is entered
\* with update_job_status(stage, 0.0), works, and leaves with
\* update_job_status(stage, 1.0); each of these is a commit of its own.
JobOf(c) == crun[c].job

Goto(c, pc) == crun' = [crun EXCEPT ![c] = [@ EXCEPT !.pc = pc]]

\* Entering a task: its first status write.
Enter(c, pc, stage, progress, next) ==
    /\ crun[c].pc = pc
    /\ UpdateJobStatus(JobOf(c), stage, progress, None)
    /\ crun' = [crun EXCEPT ![c] = [@ EXCEPT !.pc = next, !.attempt = stage]]
    /\ UNCHANGED <<created, mediaType, fusion, service, reports, req, sim>>

\* A pipeline message is delivered to a worker.  Nothing in the tasks looks
\* at the job's current status before they start.
Dispatch(c, j) ==
    /\ crun[c].pc = "idle"
    /\ job[j].exists
    /\ crun' = [crun EXCEPT ![c] = [IdleRun EXCEPT !.pc = "validate", !.job = j]]
    /\ UNCHANGED <<job, created, mediaType, fusion, service, reports, req,
                   sim, call>>

ValidateBegin(c) == Enter(c, "validate", VALIDATING, Zero, "validate_work")

\* Where run_preprocessing_pipeline goes after validate_media, by media type.
AfterValidate(media_type) ==
    CASE media_type = "video" -> "frames"
      [] media_type = "audio" -> "transcribe"
      [] OTHER -> "save_results"

\* The file exists and its hash matches.
ValidateEnd(c) ==
    /\ crun[c].pc = "validate_work"
    /\ UpdateJobStatus(JobOf(c), VALIDATING, One, None)
    /\ LET mt == mediaType[job[JobOf(c)].media_id] IN
        crun' = [crun EXCEPT ![c] =
                   [@ EXCEPT !.pc = AfterValidate(mt), !.media_type = mt]]
    /\ UNCHANGED <<created, mediaType, fusion, service, reports, req, sim>>

FramesBegin(c) == Enter(c, "frames", EXTRACTING, Zero, "frames_open")

FrameCounts == {h * ProgressEvery : h \in 0 .. MaxHundreds}
VideoFpsChoices == {30}
FrameInterval(video_fps) ==
    IF video_fps \div DefaultFps > 1 THEN video_fps \div DefaultFps ELSE 1
\* Frames 0, interval, 2 * interval, ... below actual are written out.
ExtractedCount(actual, interval) == (actual + interval - 1) \div interval

\* cv2.VideoCapture opens the file: total_frames is what the container
\* reports, actual is how many frames cap.read() will deliver.
FramesOpen(c) ==
    /\ crun[c].pc = "frames_open"
    /\ \E total \in FrameCounts, actual \in FrameCounts,
          video_fps \in VideoFpsChoices :
        crun' = [crun EXCEPT ![c] =
                   [@ EXCEPT !.pc = "frames_loop", !.total = total,
                             !.actual = actual, !.fc = 0,
                             !.nframes = ExtractedCount(actual,
                                             FrameInterval(video_fps))]]
    /\ UNCHANGED <<job, created, mediaType, fusion, service, reports, req,
                   sim, call>>

\* progress = frame_count / total_frames if total_frames > 0 else 0, stored
\* as progress * 0.5.
ExtractProgress(fc, total) ==
    IF total > 0 THEN FMul(Frac(fc, total), Half) ELSE Zero

\* The next ProgressEvery frames are read and the progress is stored.
FramesLoop(c) ==
    /\ crun[c].pc = "frames_loop"
    /\ crun[c].fc + ProgressEvery <= crun[c].actual
    /\ UpdateJobStatus(JobOf(c), EXTRACTING,
                       ExtractProgress(crun[c].fc + ProgressEvery,
                                       crun[c].total), None)
    /\ crun' = [crun EXCEPT ![c] = [@ EXCEPT !.fc = @ + ProgressEvery]]
    /\ UNCHANGED <<created, mediaType, fusion, service, reports, req, sim>>

\* cap.read() fails: the loop ends, update_job_status(EXTRACTING, 0.5).
FramesEnd(c) ==
    /\ crun[c].pc = "frames_loop"
    /\ crun[c].fc + ProgressEvery > crun[c].actual
    /\ UpdateJobStatus(JobOf(c), EXTRACTING, Half, None)
    /\ crun' = [crun EXCEPT ![c] =
                  [@ EXCEPT !.pc = "audio", !.total = 0, !.actual = 0,
                            !.fc = 0]]
    /\ UNCHANGED <<created, mediaType, fusion, service, reports, req, sim>>

AudioBegin(c) == Enter(c, "audio", EXTRACTING, Half, "audio_work")

\* ffmpeg returned 0.
AudioEnd(c) ==
    /\ crun[c].pc = "audio_work"
    /\ UpdateJobStatus(JobOf(c), EXTRACTING, One, None)
    /\ crun' = [crun EXCEPT ![c] =
                  [@ EXCEPT !.pc = "transcribe", !.has_audio = TRUE]]
    /\ UNCHANGED <<created, mediaType, fusion, service, reports, req, sim>>

TranscribeBegin(c) ==
    Enter(c, "transcribe", TRANSCRIBING, Zero, "transcribe_work")

\* The transcript, or the empty transcript when whisper is not installed.
TranscribeEnd(c) ==
    /\ crun[c].pc = "transcribe_work"
    /\ UpdateJobStatus(JobOf(c), TRANSCRIBING, One, None)
    /\ Goto(c, "save_results")
    /\ UNCHANGED <<created, mediaType, fusion, service, reports, req, sim>>

\* The results dict run_preprocessing_pipeline builds, by media type.
PreprocessResults(media_type) ==
    CASE media_type = "video" ->
           [k \in {"job_id", "frames", "audio", "transcript"} |->
              CASE k = "job_id" -> "run_preprocessing_pipeline"
                [] k = "frames" -> "extract_frames"
                [] k = "audio" -> "extract_audio"
                [] k = "transcript" -> "transcribe_audio"]
      [] media_type = "audio" ->
           [k \in {"job_id", "transcript"} |->
              CASE k = "job_id" -> "run_preprocessing_pipeline"
                [] k = "transcript" -> "transcribe_audio"]
      [] OTHER -> [k \in {"job_id"} |-> "run_preprocessing_pipeline"]

\* "job.results = results", commit; run_inference_pipeline follows.
SaveResults(c) ==
    /\ crun[c].pc = "save_results"
    /\ job' = [job EXCEPT ![JobOf(c)] =
                 [@ EXCEPT !.results = PreprocessResults(crun[c].media_type)]]
    /\ Goto(c, "video")
    /\ UNCHANGED <<created, mediaType, fusion, service, reports, req, sim,
                   call>>

\* run_video_inference: frames = frames_data.get("frames", []).
VideoBegin(c) ==
    Enter(c, "video", INFER_VIDEO, Zero,
          IF crun[c].nframes = 0 THEN "video_empty" ELSE "video_loop")

\* No frames: update_job_status(INFER_VIDEO, 1.0), video_score 0.0.
VideoEmpty(c) ==
    /\ crun[c].pc = "video_empty"
    /\ UpdateJobStatus(JobOf(c), INFER_VIDEO, One, None)
    /\ crun' = [crun EXCEPT ![c] = [@ EXCEPT !.pc = "audio_inf", !.v = 0]]
    /\ UNCHANGED <<created, mediaType, fusion, service, reports, req, sim>>

\* Frames i .. i + 9 are scored; "if i % 10 == 0" stores progress i / len.
VideoLoop(c) ==
    /\ crun[c].pc = "video_loop"
    /\ UpdateJobStatus(JobOf(c), INFER_VIDEO,
                       Frac(crun[c].i, crun[c].nframes), None)
    /\ crun' = [crun EXCEPT ![c] =
                  IF crun[c].i + VideoProgressEvery >= crun[c].nframes
                  THEN [@ EXCEPT !.pc = "video_end", !.i = 0]
                  ELSE [@ EXCEPT !.i = @ + VideoProgressEvery]]
    /\ UNCHANGED <<created, mediaType, fusion, service, reports, req, sim>>

\* Frame probabilities drawn from the whole unit interval.
VideoScoreLevelsUnitInterval == {0, 1000}

\* avg_score of fake_prob = uniform(0.0, 0.5) draws.
VideoScoreLevels == {0, 500}
\* spoof_probability = uniform(0.0, 0.4).
AudioScoreLevels == {0, 400}
\* mismatch_score = uniform(0.0, 0.3).
LipsyncScoreLevels == {0, 300}

VideoEnd(c) ==
    /\ crun[c].pc = "video_end"
    /\ UpdateJobStatus(JobOf(c), INFER_VIDEO, One, None)
    /\ \E v \in VideoScoreLevels :
        crun' = [crun EXCEPT ![c] =
                   [@ EXCEPT !.pc = "audio_inf", !.v = v, !.nframes = 0]]
    /\ UNCHANGED <<created, mediaType, fusion, service, reports, req, sim>>

AudioInfBegin(c) ==
    Enter(c, "audio_inf", INFER_AUDIO, Zero, "audio_inf_work")

\* "if not audio_path or not Path(audio_path).exists()": score 0.0;
\* otherwise the drawn spoof probability.
AudioInfEnd(c) ==
    /\ crun[c].pc = "audio_inf_work"
    /\ UpdateJobStatus(JobOf(c), INFER_AUDIO, One, None)
    /\ \E present \in (IF crun[c].has_audio THEN BOOLEAN ELSE {FALSE}) :
       \E a \in (IF present THEN AudioScoreLevels ELSE {0}) :
        crun' = [crun EXCEPT ![c] =
                   [@ EXCEPT !.pc = "lipsync", !.a = a, !.has_audio = FALSE]]
    /\ UNCHANGED <<created, mediaType, fusion, service, reports, req, sim>>

LipsyncBegin(c) == Enter(c, "lipsync", LIPSYNC, Zero, "lipsync_work")

LipsyncEnd(c) ==
    /\ crun[c].pc = "lipsync_work"
    /\ UpdateJobStatus(JobOf(c), LIPSYNC, One, None)
    /\ \E l \in LipsyncScoreLevels :
        crun' = [crun EXCEPT ![c] = [@ EXCEPT !.pc = "fusion", !.l = l]]
    /\ UNCHANGED <<created, mediaType, fusion, service, reports, req, sim>>

FusionBegin(c) == Enter(c, "fusion", FUSION, Zero, "fusion_write")

\* run_fusion's "simple weighted fusion" and its three-bucket label.
WorkerFusedScore(v, a, l) == (WVideo * v + WAudio * a + WLipsync * l) \div 1000
WorkerLabel(overall) ==
    IF overall < AuthenticBelow THEN "AUTHENTIC"
    ELSE IF overall < LikelyFakeBelow THEN "LIKELY_FAKE"
    ELSE "FAKE"

\* {**(job.results or {}), "video": ..., "audio": ..., "lipsync": ...,
\*  "fusion": ...}: the keys on the right replace equal keys on the left.
FusionResults(old) ==
    [k \in {"video", "audio", "lipsync", "fusion"} |->
       CASE k = "video" -> "run_video_inference"
         [] k = "audio" -> "run_audio_inference"
         [] k = "lipsync" -> "run_lipsync_inference"
         [] k = "fusion" -> "run_fusion"] @@ old

\* A fusion write that stores the score and forgets the label.
FusionRowScoreOnly(row, v, a, l) ==
    [row EXCEPT !.overall_score = Some(WorkerFusedScore(v, a, l)),
                !.results = FusionResults(row.results)]

FusionRow(row, v, a, l) ==
    [row EXCEPT !.overall_score = Some(WorkerFusedScore(v, a, l)),
                !.label = Some(WorkerLabel(WorkerFusedScore(v, a, l))),
                !.results = FusionResults(row.results)]

\* overall_score, label and the merged results are committed.
FusionWrite(c) ==
    /\ crun[c].pc = "fusion_write"
    /\ job' = [job EXCEPT ![JobOf(c)] =
                 FusionRow(@, crun[c].v, crun[c].a, crun[c].l)]
    /\ crun' = [crun EXCEPT ![c] =
                  [@ EXCEPT !.pc = "fusion_end", !.v = 0, !.a = 0, !.l = 0]]
    /\ UNCHANGED <<created, mediaType, fusion, service, reports, req, sim,
                   call>>

FusionEnd(c) ==
    /\ crun[c].pc = "fusion_end"
    /\ UpdateJobStatus(JobOf(c), FUSION, One, None)
    /\ crun' = [crun EXCEPT ![c] = [@ EXCEPT !.pc = "done", !.media_type = ""]]
    /\ UNCHANGED <<created, mediaType, fusion, service, reports, req, sim>>

\* The places where a task's work can raise.
RaisingPcs ==
    {"validate_work", "frames_open", "frames_loop", "audio_work",
     "transcribe_work", "video_loop", "video_end", "audio_inf_work",
     "lipsync_work", "fusion_write"}

\* Every task's handler: update_job_status(job_id, FAILED, 0.0, str(e)),
\* then the exception is raised again.
TaskFail(c) ==
    /\ crun[c].pc \in RaisingPcs
    /\ \E msg \in ErrMsgs :
        /\ UpdateJobStatus(JobOf(c), FAILED, Zero, Some(msg))
        /\ crun' = [crun EXCEPT ![c] =
                      [IdleRun EXCEPT !.pc = "pipeline_except",
                                      !.job = JobOf(c),
                                      !.attempt = crun[c].attempt,
                                      !.err = msg]]
    /\ UNCHANGED <<created, mediaType, fusion, service, reports, req, sim>>

\* A pipeline handler that starts the run again from validate_media.
PipelineFailRetrying(c) ==
    /\ crun[c].pc = "pipeline_except"
    /\ UpdateJobStatus(JobOf(c), FAILED, Zero, Some(crun[c].err))
    /\ Goto(c, "validate")
    /\ UNCHANGED <<created, mediaType, fusion, service, reports, req, sim>>

\* The pipeline task's handler, reached by the re-raised exception: the
\* same call once more; no further task of the run is started.
PipelineFail(c) ==
    /\ crun[c].pc = "pipeline_except"
    /\ UpdateJobStatus(JobOf(c), FAILED, Zero, Some(crun[c].err))
    /\ Goto(c, "failed")
    /\ UNCHANGED <<created, mediaType, fusion, service, reports, req, sim>>

\* --------------------------------------------------------------------- Next
ApiStep == \E r \in Reqs : StartCheck(r) \/ StartCreate(r)

SimStep ==
    \E j \in JobIds :
        \/ SimBegin(j) \/ SimStage(j) \/ SimComplete(j) \/ SimFail(j)
        \/ SimReport(j) \/ SimReportFail(j)

CeleryStep ==
    \E c \in Workers :
        \/ ValidateBegin(c) \/ ValidateEnd(c)
        \/ FramesBegin(c) \/ FramesOpen(c) \/ FramesLoop(c) \/ FramesEnd(c)
        \/ AudioBegin(c) \/ AudioEnd(c)
        \/ TranscribeBegin(c) \/ TranscribeEnd(c)
        \/ SaveResults(c)
        \/ VideoBegin(c) \/ VideoEmpty(c) \/ VideoLoop(c) \/ VideoEnd(c)
        \/ AudioInfBegin(c) \/ AudioInfEnd(c)
        \/ LipsyncBegin(c) \/ LipsyncEnd(c)
        \/ FusionBegin(c) \/ FusionWrite(c) \/ FusionEnd(c)
        \/ TaskFail(c) \/ PipelineFail(c)

DispatchStep == \E c \in Workers, j \in JobIds : Dispatch(c, j)

\* One pipeline run on a fresh job.
Next == SimStep \/ CeleryStep
Spec == Init /\ [][Next]_vars

\* The simulation of a job and Celery pipeline runs delivered for the same
\* job at any time.
NextShared == SimStep \/ CeleryStep \/ DispatchStep
SpecShared == InitShared /\ [][NextShared]_vars

\* The API server alone: requests and the background tasks they queue.
NextApi == ApiStep \/ SimStep
SpecApi == InitApi /\ [][NextApi]_vars

\* ------------------------------------------------------------------ claims
Existing == {j \in JobIds : job[j].exists}

\* A Celery run that has started and has neither finished nor entered its
\* own exception handlers.
Running(c) == crun[c].pc \notin {"idle", "done", "pipeline_except", "failed"}

\* C1: over a pipeline run on a job, for every media type, each persisted
\* change of the job's stage goes from a state s to a state listed in
\* STATE_TRANSITIONS[s].
C1_StageFollowsTransitions ==
    [][\A j \in JobIds :
         job'[j].stage # job[j].stage
            => job'[j].stage \in STATE_TRANSITIONS[job[j].stage]]_vars

\* C2: an update_job_status call whose requested stage is neither the
\* current stage's designated next state nor FAILED is rejected and leaves
\* the job row unchanged; in particular nothing is accepted after FAILED.
C2_IllegalTransitionRejected ==
    (call.job # 0 /\ call.to # call.from
        /\ call.to \notin STATE_TRANSITIONS[call.from]) => ~call.changed

\* C3: once a job's persisted status is DONE, no operation changes its
\* status, stage, results, overall_score or label again.
C3_DoneIsFinal ==
    [][\A j \in JobIds :
         job[j].status = DONE
            => /\ job'[j].status = DONE
               /\ job'[j].stage = job[j].stage
               /\ job'[j].results = job[j].results
               /\ job'[j].overall_score = job[j].overall_score
               /\ job'[j].label = job[j].label]_vars

\* C4: when a job has been marked FAILED by another actor while a pipeline
\* run on it is between two stages, the run's next step leaves the status
\* FAILED and starts no later stage.
C4_FailedIsObserved ==
    [][\A c \in Workers :
         (Running(c) /\ job[JobOf(c)].status = FAILED /\ crun'[c] # crun[c])
            => /\ job'[JobOf(c)].status = FAILED
               /\ job'[JobOf(c)].stage = job[JobOf(c)].stage]_vars

\* C5: concurrent start_analysis requests for one media item leave at most
\* one job with a non-terminal status for that media, and a request that
\* did not create the job returns the one that exists.
C5_OneActiveJobPerMedia ==
    /\ \A m \in MediaIds : Cardinality(ActiveJobsOf(m)) <= 1
    /\ \A r \in Reqs : req[r].pc # "error"

\* C6: within one pipeline run every persisted progress lies in [0,1] and
\* is not smaller than the previously persisted one, across stage
\* boundaries and on failure as well as inside a stage.
C6_ProgressNeverDecreases ==
    [][\A j \in JobIds :
         /\ InUnit(job'[j].progress)
         /\ FLeq(job[j].progress, job'[j].progress)]_vars

\* C7: in every persisted state status equals stage unless status is
\* FAILED, and after a failed stage status is FAILED while stage still
\* names the stage that was being attempted.
C7_StageKeptOnFailure ==
    /\ \A j \in Existing :
          job[j].status = job[j].stage \/ job[j].status = FAILED
    /\ \A c \in Workers :
          crun[c].pc \in {"pipeline_except", "failed"}
             => /\ job[JobOf(c)].status = FAILED
                /\ job[JobOf(c)].stage = crun[c].attempt

\* C8: in every persisted state, also when two runs interleave their
\* writes on one job, error_message is non-null only if status is FAILED.
C8_ErrorOnlyWhenFailed ==
    \A j \in Existing :
        job[j].error_message # None => job[j].status = FAILED

\* C9: when a stage task raises, whatever the exception's message, the job
\* ends with status FAILED and a recorded error_message.
C9_FailureRecorded ==
    \A c \in Workers :
        crun[c].pc = "failed"
           => /\ job[JobOf(c)].status = FAILED
              /\ job[JobOf(c)].error_message # None

C11_VerdictWrittenOnce ==
    [][\A j \in JobIds :
         /\ job[j].overall_score # None
               => job'[j].overall_score = job[j].overall_score
         /\ job[j].label # None => job'[j].label = job[j].label]_vars

\* C12: every write to job.results only adds top-level keys: each key
\* present before the write is present with the same value after it.
C12_ResultsOnlyGrow ==
    [][\A j \in JobIds :
         \A k \in DOMAIN job[j].results :
             /\ k \in DOMAIN job'[j].results
             /\ job'[j].results[k] = job[j].results[k]]_vars

\* ------------------------------------------------- report stage (from spec)
\* app/workers/report.py is not part of the sources at hand.  Following the
\* orchestration contract, after Fusion the run enters stage REPORT, hands
\* the verdict to the report collaborator, and on its acknowledgment
\* advances to DONE; a refusal fails the job.
ReportHandoff(c) ==
    /\ crun[c].pc = "done"
    /\ job' = [job EXCEPT ![JobOf(c)] =
                 [@ EXCEPT !.stage = REPORT, !.status = REPORT]]
    /\ crun' = [crun EXCEPT ![c] = [@ EXCEPT !.pc = "report",
                                             !.attempt = REPORT]]
    /\ UNCHANGED <<created, mediaType, fusion, service, reports, req, sim,
                   call>>

ReportAck(c) ==
    /\ crun[c].pc = "report"
    /\ job' = [job EXCEPT ![JobOf(c)] =
                 [@ EXCEPT !.stage = DONE, !.status = DONE,
                           !.completed_at = TRUE]]
    /\ reports' = reports \cup {JobOf(c)}
    /\ crun' = [crun EXCEPT ![c] = [@ EXCEPT !.pc = "finalized"]]
    /\ UNCHANGED <<created, mediaType, fusion, service, req, sim, call>>

ReportRefuse(c) ==
    /\ crun[c].pc = "report"
    /\ job' = [job EXCEPT ![JobOf(c)] =
                 [@ EXCEPT !.status = FAILED,
                           !.error_message = Some("error")]]
    /\ crun' = [crun EXCEPT ![c] = [@ EXCEPT !.pc = "failed"]]
    /\ UNCHANGED <<created, mediaType, fusion, service, reports, req, sim,
                   call>>

ReportStep ==
    \E c \in Workers : ReportHandoff(c) \/ ReportAck(c) \/ ReportRefuse(c)

\* One pipeline run on a fresh job, carried through the report stage.  The
\* background task and the worker keep running what they have started.
NextLive == SimStep \/ CeleryStep \/ ReportStep
SpecLive == Init /\ [][NextLive]_vars /\ WF_vars(NextLive)

\* A step of the run on job 1 has raised.
RunFailed ==
    \/ sim[1].pc = "failed"
    \/ \E c \in Workers : crun[c].pc \in {"pipeline_except", "failed"}

EnabledNum(options, v, a, l) ==
    (IF "video" \in options THEN WVideo * v ELSE 0)
    + (IF "audio" \in options THEN WAudio * a ELSE 0)
    + (IF "lipsync" \in options THEN WLipsync * l ELSE 0)
EnabledDen(options) ==
    (IF "video" \in options THEN WVideo ELSE 0)
    + (IF "audio" \in options THEN WAudio ELSE 0)
    + (IF "lipsync" \in options THEN WLipsync ELSE 0)

\* C14: when the job's options disable a modality, the overall score that
\* run_fusion persists is the weighted combination of the enabled
\* modalities' scores only.
C14_DisabledModalityExcluded ==
    [][\A c \in Workers :
         (/\ crun[c].pc = "fusion_write"
          /\ crun'[c].pc = "fusion_end"
          /\ job[JobOf(c)].options # Modalities)
            => LET o == job[JobOf(c)].options
                   overall == job'[JobOf(c)].overall_score[1]
               IN overall * EnabledDen(o)
                     = EnabledNum(o, crun[c].v, crun[c].a, crun[c].l)]_vars

\* ------------------------------------------------ MultimodalFusionService
\* Scores and confidences are in thousandths, weights in hundredths; the
\* fused score is kept as an exact fraction of 1.  A modality's result is
\* absent (None) or a dict with "score" and "confidence".
ScoreLevels == {0, 249, 250, 450, 500, 600, 800, 1000}
ConfidenceLevels == {0, 500, 1000}
ModalityResults ==
    {None} \cup {Some([score |-> s, confidence |-> c]) :
                    s \in ScoreLevels, c \in ConfidenceLevels}
FusionInputs == [Modalities -> ModalityResults]

pipelineVars ==
    <<job, created, mediaType, reports, req, sim, crun, call, service>>

\* input_data.get(m, {}).get(key, default)
GetField(input_data, m, key, default) ==
    IF input_data[m] = None THEN default ELSE input_data[m][1][key]

preprocess(input_data) ==
    [score |-> [m \in Modalities |-> GetField(input_data, m, "score", 0)],
     confidence |->
        [m \in Modalities |-> GetField(input_data, m, "confidence", 1000)]]

\* self.weights[m] * <m>_conf
AdjustedWeights(weights, pre) ==
    [m \in Modalities |-> weights[m] * pre.confidence[m]]

TotalWeight(adjusted) ==
    adjusted["video"] + adjusted["audio"] + adjusted["lipsync"]

WeightedSum(adjusted, score) ==
    adjusted["video"] * score["video"] + adjusted["audio"] * score["audio"]
    + adjusted["lipsync"] * score["lipsync"]

\* The confidence-weighted path: the adjusted weights are divided by their
\* total when it is positive and used as they are otherwise.
FusedScore(weights, pre) ==
    LET adjusted == AdjustedWeights(weights, pre)
        total_weight == TotalWeight(adjusted)
    IN IF total_weight > 0
       THEN Frac(WeightedSum(adjusted, pre.score), total_weight * 1000)
       ELSE Frac(WeightedSum(adjusted, pre.score), 100 * 1000 * 1000)

\* np.std(scores) squared, for a list of scores: the population variance
\* (n * sum(s^2) - sum(s)^2) / n^2, as a fraction of 1.
RECURSIVE SumSeq(_)
SumSeq(xs) == IF xs = <<>> THEN 0 ELSE Head(xs) + SumSeq(Tail(xs))
Squares(xs) == [i \in 1..Len(xs) |-> xs[i] * xs[i]]
Variance(xs) ==
    Frac(Len(xs) * SumSeq(Squares(xs)) - SumSeq(xs) * SumSeq(xs),
         Len(xs) * Len(xs) * 1000 * 1000)

\* predict: agreement = 1 - np.std([video, audio, lipsync]) is kept by the
\* exact square std2 of its distance from 1.
predict(weights, pre) ==
    [fused_score |-> FusedScore(weights, pre),
     std2 |-> Variance(<<pre.score["video"], pre.score["audio"],
                         pre.score["lipsync"]>>),
     modality_scores |-> pre.score,
     used_weights |-> weights]

FLess(p, q) == p[1] * q[2] < q[1] * p[2]

\* A label function whose comparisons include the upper bound.
ServiceLabelUpperInclusive(score) ==
    IF FLeq(score, Frac(25, 100)) THEN "AUTHENTIC"
    ELSE IF FLeq(score, Frac(45, 100)) THEN "LIKELY_AUTHENTIC"
    ELSE IF FLeq(score, Frac(6, 10)) THEN "SUSPICIOUS"
    ELSE IF FLeq(score, Frac(8, 10)) THEN "LIKELY_FAKE"
    ELSE "FAKE"

ServiceLabel(score) ==
    IF FLess(score, Frac(25, 100)) THEN "AUTHENTIC"
    ELSE IF FLess(score, Frac(45, 100)) THEN "LIKELY_AUTHENTIC"
    ELSE IF FLess(score, Frac(6, 10)) THEN "SUSPICIOUS"
    ELSE IF FLess(score, Frac(8, 10)) THEN "LIKELY_FAKE"
    ELSE "FAKE"

\* A concerns list that also counts a score of exactly 0.5.
ConcernsFromHalf(modality_scores) ==
    (IF modality_scores["video"] >= 500
     THEN <<"Visual manipulation artifacts detected">> ELSE <<>>)
    \o (IF modality_scores["audio"] >= 500
        THEN <<"Synthetic audio patterns detected">> ELSE <<>>)
    \o (IF modality_scores["lipsync"] >= 500
        THEN <<"Audio-visual synchronization mismatch">> ELSE <<>>)

Concerns(modality_scores) ==
    (IF modality_scores["video"] > 500
     THEN <<"Visual manipulation artifacts detected">> ELSE <<>>)
    \o (IF modality_scores["audio"] > 500
        THEN <<"Synthetic audio patterns detected">> ELSE <<>>)
    \o (IF modality_scores["lipsync"] > 500
        THEN <<"Audio-visual synchronization mismatch">> ELSE <<>>)

\* postprocess; "confidence" (agreement * (1 - |score - 0.5| * 0.5)) is
\* a function of the two values kept here.
postprocess(raw_output) ==
    [overall_score |-> raw_output.fused_score,
     label |-> ServiceLabel(raw_output.fused_score),
     std2 |-> raw_output.std2,
     modality_breakdown |-> raw_output.modality_scores,
     concerns |-> Concerns(raw_output.modality_scores),
     weights_used |-> raw_output.used_weights]

\* BaseInferenceService.__call__: preprocess, predict, postprocess.
ServicePreprocess ==
    /\ fusion.pc = "input"
    /\ fusion' = [fusion EXCEPT !.pc = "preprocessed",
                                !.pre = Some(preprocess(fusion.input))]
    /\ UNCHANGED pipelineVars

ServicePredict ==
    /\ fusion.pc = "preprocessed"
    /\ fusion' = [fusion EXCEPT !.pc = "predicted",
                     !.raw = Some(predict(fusion.weights, fusion.pre[1]))]
    /\ UNCHANGED pipelineVars

ServicePostprocess ==
    /\ fusion.pc = "predicted"
    /\ fusion' = [fusion EXCEPT !.pc = "returned",
                                !.out = Some(postprocess(fusion.raw[1]))]
    /\ UNCHANGED pipelineVars

\* A service with the default weights is called on one input.
InitFusion ==
    /\ job = [j \in JobIds |-> NoJob]
    /\ created = 0
    /\ mediaType \in [MediaIds -> {"video"}]
    /\ reports = {}
    /\ req = [r \in Reqs |-> IdleReq]
    /\ sim = [j \in JobIds |-> NoSim]
    /\ crun = [c \in Workers |-> IdleRun]
    /\ call = NoCall
    /\ service = NoService
    /\ \E input_data \in FusionInputs :
          fusion = [NoFusion EXCEPT !.pc = "input", !.input = input_data]

NextFusion == ServicePreprocess \/ ServicePredict \/ ServicePostprocess
SpecFusion == InitFusion /\ [][NextFusion]_vars

\* ------------------------------------------------------- claims on fusion
Present(input_data) == {m \in Modalities : input_data[m] # None}
Returned == fusion.pc = "returned"

\* The scores of the present modalities, in the order video, audio, lipsync.
PresentScores(input_data) ==
    LET order == <<"video", "audio", "lipsync">>
        IsPresent(m) == input_data[m] # None
        present == SelectSeq(order, IsPresent)
    IN [i \in 1..Len(present) |-> input_data[present[i]][1].score]

\* The input with the confidence of every present modality halved.
HalveConfidences(input_data) ==
    [m \in Modalities |->
        IF input_data[m] = None THEN None
        ELSE Some([input_data[m][1] EXCEPT !.confidence = @ \div 2])]

\* C16: when exactly one modality is present, with confidence 1.0, the
\* fused score returned by the service equals that modality's score.
C16_SingleModalityScore ==
    \A m \in Modalities :
        (/\ Returned
         /\ Present(fusion.input) = {m}
         /\ fusion.input[m][1].confidence = 1000)
           => fusion.out[1].overall_score
                 = Frac(fusion.input[m][1].score, 1000)

\* C17: when every present modality has confidence 0, the fused score is
\* the unweighted average of the present modalities' raw scores.
C17_ZeroWeightAverage ==
    (/\ Returned
     /\ Present(fusion.input) # {}
     /\ \A m \in Present(fusion.input) : fusion.input[m][1].confidence = 0)
       => fusion.out[1].overall_score
             = Frac(SumSeq(PresentScores(fusion.input)),
                    Len(PresentScores(fusion.input)) * 1000)

\* C18: multiplying the confidences of all present modalities by the same
\* positive constant (here one half) leaves the fused score unchanged.
C18_ScaleInvariant ==
    (Returned /\ Present(fusion.input) # {})
       => FusedScore(fusion.weights,
                     preprocess(HalveConfidences(fusion.input)))
             = fusion.out[1].overall_score

\* C19: the agreement is computed over the present modality scores only
\* and lies in [0,1]; it is 1 whenever all present scores are equal.
C19_AgreementOverPresent ==
    (Returned /\ Present(fusion.input) # {})
       => /\ FLeq(fusion.out[1].std2, One)
          /\ fusion.out[1].std2 = Variance(PresentScores(fusion.input))
          /\ (\A i, k \in 1..Len(PresentScores(fusion.input)) :
                 PresentScores(fusion.input)[i]
                    = PresentScores(fusion.input)[k])
                => fusion.out[1].std2 = Zero

\* C20: postprocess maps a fused score in [0,1] to its label by intervals
\* closed below and open above: [0,0.25) AUTHENTIC, [0.25,0.45)
\* LIKELY_AUTHENTIC, [0.45,0.6) SUSPICIOUS, [0.6,0.8) LIKELY_FAKE,
\* [0.8,1] FAKE.
C20_LabelIntervals ==
    Returned =>
        LET score == fusion.out[1].overall_score
            label == fusion.out[1].label
            In(lo, hi) == FLeq(lo, score) /\ FLess(score, hi)
        IN /\ In(Zero, Frac(1, 4)) => label = "AUTHENTIC"
           /\ In(Frac(1, 4), Frac(9, 20)) => label = "LIKELY_AUTHENTIC"
           /\ In(Frac(9, 20), Frac(3, 5)) => label = "SUSPICIOUS"
           /\ In(Frac(3, 5), Frac(4, 5)) => label = "LIKELY_FAKE"
           /\ (FLeq(Frac(4, 5), score) /\ FLeq(score, One))
                 => label = "FAKE"

\* A fused score exactly on the threshold 0.25 has been labelled.
C20_Witness ==
    /\ Returned
    /\ fusion.out[1].overall_score = Frac(1, 4)
    /\ fusion.out[1].label = "LIKELY_AUTHENTIC"


\* ------------------------------------------ the weighted path in binary64
\* The definitions above compute the fusion in exact arithmetic.  The
\* service computes it with Python floats, and the section below follows
\* those operation by operation, each with its rounding.
\* Python floats are IEEE 754 binary64 numbers.  A natural number is kept
\* as a sequence of 14-bit limbs, lowest first, with no leading zero limb;
\* a non-negative float is m * 2^e with m of at most 53 bits, kept with m
\* odd (or zero).  Every operation computes the exact result and rounds it
\* to 53 bits, ties to even.  Overflow, underflow and subnormals do not
\* arise for the values near [0,1] used here.
Limb(a, i) == IF i >= 1 /\ i <= Len(a) THEN a[i] ELSE 0
Max(a, b) == IF a < b THEN b ELSE a
Min(a, b) == IF a < b THEN a ELSE b

TrimLimbs(a) ==
    LET used == {i \in 1..Len(a) : a[i] # 0}
    IN IF used = {} THEN <<>>
       ELSE SubSeq(a, 1, CHOOSE i \in used : \A k \in used : k <= i)

NatOfInt(n) == TrimLimbs(<<n % 16384, (n \div 16384) % 16384,
                           n \div (16384 * 16384)>>)

\* Carries of a sequence of column sums, lowest column first.
RECURSIVE CarryFrom(_, _, _)
CarryFrom(cols, k, carry) ==
    IF k > Len(cols) THEN <<carry>>
    ELSE <<(cols[k] + carry) % 16384>>
            \o CarryFrom(cols, k + 1, (cols[k] + carry) \div 16384)

NAdd(a, b) ==
    TrimLimbs(CarryFrom([i \in 1..Max(Len(a), Len(b)) |->
                            Limb(a, i) + Limb(b, i)], 1, 0))

\* a - b for a >= b.
RECURSIVE BorrowFrom(_, _, _, _)
BorrowFrom(a, b, i, borrow) ==
    IF i > Len(a) THEN <<>>
    ELSE <<(a[i] - Limb(b, i) - borrow) % 16384>>
            \o BorrowFrom(a, b, i + 1,
                          IF a[i] - Limb(b, i) - borrow < 0 THEN 1 ELSE 0)
NSub(a, b) == TrimLimbs(BorrowFrom(a, b, 1, 0))

\* a <= b
NLeq(a, b) ==
    IF Len(a) # Len(b) THEN Len(a) < Len(b)
    ELSE LET differ == {i \in 1..Len(a) : a[i] # b[i]}
         IN differ = {}
            \/ LET top == CHOOSE i \in differ : \A k \in differ : k <= i
               IN a[top] < b[top]

RECURSIVE SumTo(_, _)
SumTo(f, n) == IF n = 0 THEN 0 ELSE f[n] + SumTo(f, n - 1)

\* School multiplication; b has at most seven limbs.
NMul(a, b) ==
    IF a = <<>> \/ b = <<>> THEN <<>>
    ELSE TrimLimbs(CarryFrom(
            [k \in 1..(Len(a) + Len(b) - 1) |->
                SumTo([i \in 1..Len(b) |-> b[i] * Limb(a, k - i + 1)],
                      Len(b))], 1, 0))

\* Number of bits of a limb and of a natural number.
LimbBits(n) == CHOOSE k \in 0..14 : n < 2 ^ k /\ (k = 0 \/ n >= 2 ^ (k - 1))
BitLen(a) ==
    IF a = <<>> THEN 0 ELSE 14 * (Len(a) - 1) + LimbBits(a[Len(a)])

ShiftLeftBits(a, k) ==
    IF a = <<>> THEN <<>>
    ELSE [i \in 1..(k \div 14) |-> 0] \o NMul(a, <<2 ^ (k % 14)>>)

\* floor(a / 2^k)
ShiftRightBits(a, k) ==
    LET q == k \div 14
        r == k % 14
    IN TrimLimbs([i \in 1..(Len(a) - q) |->
                    (a[i + q] \div 2 ^ r)
                    + (Limb(a, i + q + 1) % 2 ^ r) * 2 ^ (14 - r)])

\* Bit i of a, the lowest bit being bit 1.
TestBit(a, i) == (Limb(a, (i - 1) \div 14 + 1) \div 2 ^ ((i - 1) % 14)) % 2
LowBitsZero(a, k) == ShiftLeftBits(ShiftRightBits(a, k), k) = a

\* One digit of a long division (Knuth, algorithm D): floor(rem / b) for
\* rem < 16384 * b, where the highest limb of b is at least 8192.  The
\* estimate from the two highest limbs of rem is at most two too large.
Digit(rem, b) ==
    LET n == Len(b)
        qhat == Min(16383, (Limb(rem, n + 1) * 16384 + Limb(rem, n)) \div b[n])
    IN CHOOSE d \in Max(0, qhat - 2)..qhat :
          /\ NLeq(NMul(b, NatOfInt(d)), rem)
          /\ ~NLeq(NMul(b, NatOfInt(d + 1)), rem)

\* One step of a long division: the limb a[i] is brought down to the
\* remainder and the next quotient digit is found.
DivStep(a, b, i, st) ==
    LET r1 == TrimLimbs(<<a[i]>> \o st.r)
        d == Digit(r1, b)
    IN [q |-> <<d>> \o st.q, r |-> NSub(r1, NMul(b, NatOfInt(d)))]

\* Long division, highest limb of a first; st holds the remainder and the
\* quotient limbs found so far.
RECURSIVE DivFrom(_, _, _, _)
DivFrom(a, b, i, st) ==
    IF i = 0 THEN [q |-> TrimLimbs(st.q), r |-> st.r]
    ELSE CHOOSE res \in {DivFrom(a, b, i - 1, st1) :
                            st1 \in {DivStep(a, b, i, st)}} : TRUE

\* Quotient of a by b # 0, and whether the division is exact; both are
\* shifted first so that the highest limb of b has its highest bit set.
NDivMod(a, b) ==
    LET s == 14 - LimbBits(b[Len(b)])
        d == CHOOSE res \in {DivFrom(a1, b1, Len(a1),
                                      [q |-> <<>>, r |-> <<>>]) :
                                 a1 \in {ShiftLeftBits(a, s)},
                                 b1 \in {ShiftLeftBits(b, s)}} : TRUE
    IN [q |-> d.q, exact |-> d.r = <<>>]

\* Number of zero bits below the lowest 1 bit of a # 0.
LowZeros(a) ==
    LET i == CHOOSE k \in 1..Len(a) :
                a[k] # 0 /\ \A j \in 1..(k - 1) : a[j] = 0
        z == CHOOSE k \in 0..13 : a[i] % 2 ^ (k + 1) # 0 /\ a[i] % 2 ^ k = 0
    IN 14 * (i - 1) + z

Canon(x) ==
    IF x.m = <<>> THEN [m |-> <<>>, e |-> 0]
    ELSE [m |-> ShiftRightBits(x.m, LowZeros(x.m)), e |-> x.e + LowZeros(x.m)]

\* n * 2^e rounded to a 53-bit significand, ties to even.
Round64(n, e) ==
    IF BitLen(n) <= 53 THEN Canon([m |-> n, e |-> e])
    ELSE LET k == BitLen(n) - 53
             q == ShiftRightBits(n, k)
             up == /\ TestBit(n, k) = 1
                   /\ (~LowBitsZero(n, k - 1) \/ TestBit(q, 1) = 1)
         IN Canon([m |-> IF up THEN NAdd(q, <<1>>) ELSE q, e |-> e + k])

F64(n) == Canon([m |-> NatOfInt(n), e |-> 0])

FMul64(x, y) == Round64(NMul(x.m, y.m), x.e + y.e)

FAdd64(x, y) ==
    IF x.m = <<>> THEN y
    ELSE IF y.m = <<>> THEN x
    ELSE LET e0 == Min(x.e, y.e)
         IN Round64(NAdd(ShiftLeftBits(x.m, x.e - e0),
                         ShiftLeftBits(y.m, y.e - e0)), e0)

\* x / y for y # 0: the quotient to at least 55 bits, with one more lowest
\* bit that is 1 when the division left a remainder.
FDiv64(x, y) ==
    IF x.m = <<>> THEN x
    ELSE LET k == 56 + BitLen(y.m) - BitLen(x.m)
             d == NDivMod(ShiftLeftBits(x.m, k), y.m)
             sticky == IF d.exact THEN 0 ELSE 1
         IN Round64(NAdd(ShiftLeftBits(d.q, 1), NatOfInt(sticky)),
                    x.e - y.e - k - 1)

\* x <= y
FLeq64(x, y) ==
    LET e0 == Min(x.e, y.e)
    IN NLeq(ShiftLeftBits(x.m, x.e - e0), ShiftLeftBits(y.m, y.e - e0))

\* x < y, and x > 0
FLess64(x, y) == ~FLeq64(y, x)
FPos64(x) == x.m # <<>>

\* The float a decimal literal n/d denotes: the nearest binary64 number.
Double(n, d) == FDiv64(F64(n), F64(d))

\* sum(values): 0 + v1 + v2 + v3, from the left.
FSum64(v1, v2, v3) == FAdd64(FAdd64(FAdd64(F64(0), v1), v2), v3)

\* Inputs of the binary64 service, scores and confidences in thousandths.
ScoreLevels64 == {500, 1000}
ConfidenceLevels64 == {0, 250, 1000}
GridInputs64 ==
    [Modalities -> {None} \cup {Some([score |-> s, confidence |-> c]) :
                                   s \in ScoreLevels64,
                                   c \in ConfidenceLevels64}]

\* All three modalities present with one confidence c: the two inputs of
\* the test suite (test_fusion_authentic, test_fusion_fake) and one more.
EqualConfidenceInput(sv, sa, sl, c) ==
    [m \in Modalities |->
        Some([score |-> CASE m = "video" -> sv
                          [] m = "audio" -> sa
                          [] m = "lipsync" -> sl,
              confidence |-> c])]
ScenarioInputs64 ==
    {EqualConfidenceInput(100, 100, 100, 900),
     EqualConfidenceInput(900, 800, 850, 900),
     EqualConfidenceInput(850, 850, 850, 600)}

FusionInputs64 == GridInputs64 \cup ScenarioInputs64

\* preprocess, the values as floats.
preprocess64(input_data) ==
    [score |-> [m \in Modalities |->
                  Double(GetField(input_data, m, "score", 0), 1000)],
     confidence |-> [m \in Modalities |->
                  Double(GetField(input_data, m, "confidence", 1000), 1000)]]

ServiceLabel64(score) ==
    IF FLess64(score, Double(25, 100)) THEN "AUTHENTIC"
    ELSE IF FLess64(score, Double(45, 100)) THEN "LIKELY_AUTHENTIC"
    ELSE IF FLess64(score, Double(6, 10)) THEN "SUSPICIOUS"
    ELSE IF FLess64(score, Double(8, 10)) THEN "LIKELY_FAKE"
    ELSE "FAKE"

Concerns64(modality_scores) ==
    (IF FLess64(Double(5, 10), modality_scores["video"])
     THEN <<"Visual manipulation artifacts detected">> ELSE <<>>)
    \o (IF FLess64(Double(5, 10), modality_scores["audio"])
        THEN <<"Synthetic audio patterns detected">> ELSE <<>>)
    \o (IF FLess64(Double(5, 10), modality_scores["lipsync"])
        THEN <<"Audio-visual synchronization mismatch">> ELSE <<>>)

\* postprocess; agreement and confidence, which need the square root of
\* np.std, are not kept: the score, the label and the concerns do not
\* depend on them.
postprocess64(raw_output) ==
    [overall_score |-> raw_output.fused_score,
     label |-> ServiceLabel64(raw_output.fused_score),
     modality_breakdown |-> raw_output.modality_scores,
     concerns |-> Concerns64(raw_output.modality_scores),
     weights_used |-> raw_output.used_weights]

ServicePreprocess64 ==
    /\ fusion.pc = "input"
    /\ fusion' = [fusion EXCEPT !.pc = "preprocessed",
                                !.pre = Some(preprocess64(fusion.input))]
    /\ UNCHANGED pipelineVars

\* predict, confidence-weighted fusion, one statement after the other:
\* the adjusted weights, their sum, the normalised weights when the sum is
\* positive, and the sum of the weighted scores.
ServicePredict64 ==
    /\ fusion.pc = "preprocessed"
    /\ \E adjusted_weights \in
            {[video |-> FMul64(fusion.weights["video"],
                               fusion.pre[1].confidence["video"]),
              audio |-> FMul64(fusion.weights["audio"],
                               fusion.pre[1].confidence["audio"]),
              lipsync |-> FMul64(fusion.weights["lipsync"],
                                 fusion.pre[1].confidence["lipsync"])]} :
       \E total_weight \in {FSum64(adjusted_weights["video"],
                                   adjusted_weights["audio"],
                                   adjusted_weights["lipsync"])} :
       \E normalized \in
            {IF FPos64(total_weight)
             THEN [video |-> FDiv64(adjusted_weights["video"], total_weight),
                   audio |-> FDiv64(adjusted_weights["audio"], total_weight),
                   lipsync |-> FDiv64(adjusted_weights["lipsync"],
                                      total_weight)]
             ELSE adjusted_weights} :
       \E terms \in
            {[video |-> FMul64(normalized["video"],
                               fusion.pre[1].score["video"]),
              audio |-> FMul64(normalized["audio"],
                               fusion.pre[1].score["audio"]),
              lipsync |-> FMul64(normalized["lipsync"],
                                 fusion.pre[1].score["lipsync"])]} :
          fusion' = [fusion EXCEPT
                        !.pc = "predicted",
                        !.raw = Some([fused_score |->
                                         FAdd64(FAdd64(terms["video"],
                                                       terms["audio"]),
                                                terms["lipsync"]),
                                      modality_scores |-> fusion.pre[1].score,
                                      used_weights |-> fusion.weights])]
    /\ UNCHANGED pipelineVars

ServicePostprocess64 ==
    /\ fusion.pc = "predicted"
    /\ fusion' = [fusion EXCEPT !.pc = "returned",
                                !.out = Some(postprocess64(fusion.raw[1]))]
    /\ UNCHANGED pipelineVars

\* A service with the default weights, as floats, is called on one input.
InitFusion64 ==
    /\ job = [j \in JobIds |-> NoJob]
    /\ created = 0
    /\ mediaType \in [MediaIds -> {"video"}]
    /\ reports = {}
    /\ req = [r \in Reqs |-> IdleReq]
    /\ sim = [j \in JobIds |-> NoSim]
    /\ crun = [c \in Workers |-> IdleRun]
    /\ call = NoCall
    /\ service = NoService
    /\ \E input_data \in FusionInputs64 :
          fusion = [NoFusion EXCEPT
                       !.pc = "input",
                       !.weights = [m \in Modalities |->
                                       Double(DEFAULT_WEIGHTS[m], 100)],
                       !.input = input_data]

NextFusion64 ==
    ServicePreprocess64 \/ ServicePredict64 \/ ServicePostprocess64
SpecFusion64 == InitFusion64 /\ [][NextFusion64]_vars

\* C15: every fused score the service returns on the weighted path, for
\* scores and confidences in [0,1] and any set of present modalities, lies
\* in [0,1].  (A float of this representation is never negative.)
C15_FusedScoreInUnit ==
    fusion.pc = "returned" => FLeq64(fusion.out[1].overall_score, F64(1))


\* ------------------------------------ the pipelines against the service
\* The modality results run_fusion receives, as an input of the service:
\* the three scores, and no confidence (the service then takes 1.0).
WorkerModalityResults(v, a, l) ==
    [m \in Modalities |->
        Some([score |-> CASE m = "video" -> v
                          [] m = "audio" -> a
                          [] m = "lipsync" -> l,
              confidence |-> 1000])]

\* C21: the overall_score and the label a pipeline persists are those the
\* fusion service returns: run_fusion's are the service's result for the
\* same three modality scores, and the simulation's label is the service's
\* label for the persisted score.
C21_VerdictIsTheServices ==
    [][/\ \A c \in Workers :
            crun[c].pc = "fusion_write" /\ crun'[c].pc = "fusion_end" =>
                LET out == postprocess(predict(DEFAULT_WEIGHTS,
                              preprocess(WorkerModalityResults(
                                  crun[c].v, crun[c].a, crun[c].l))))
                    row == job'[JobOf(c)]
                IN /\ Frac(row.overall_score[1], 1000) = out.overall_score
                   /\ row.label = Some(out.label)
       /\ \A j \in JobIds :
            sim[j].pc = "finish" /\ sim'[j].pc = "report" =>
                job'[j].label =
                    Some(ServiceLabel(Frac(job'[j].overall_score[1], 1000)))
      ]_vars


\* The fixed concern string of each modality, and the modalities' order.
ConcernOf(m) ==
    CASE m = "video" -> "Visual manipulation artifacts detected"
      [] m = "audio" -> "Synthetic audio patterns detected"
      [] m = "lipsync" -> "Audio-visual synchronization mismatch"
ModalityRank(m) ==
    CASE m = "video" -> 1 [] m = "audio" -> 2 [] m = "lipsync" -> 3

\* C22: the concerns of a returned result are the concern strings of
\* exactly the modalities whose score in the input is strictly greater
\* than 0.5, each once, in the order video, audio, lipsync.
C22_ConcernsAboveHalf ==
    Returned =>
        LET concerns == fusion.out[1].concerns
            ScoreOf(m) == IF fusion.input[m] = None THEN 0
                          ELSE fusion.input[m][1].score
        IN /\ \A m \in Modalities :
                (\E i \in 1..Len(concerns) : concerns[i] = ConcernOf(m))
                    <=> ScoreOf(m) > 500
           /\ \A i \in 1..Len(concerns) :
                \E m \in Modalities : concerns[i] = ConcernOf(m)
           /\ \A i, k \in 1..Len(concerns) : \A m, n \in Modalities :
                (i < k /\ concerns[i] = ConcernOf(m)
                       /\ concerns[k] = ConcernOf(n))
                    => ModalityRank(m) < ModalityRank(n)

\* A result for video exactly 0.5, audio 0.6 and lipsync 0.8: the audio
\* and lipsync concerns and no video concern.
C22_Witness ==
    /\ Returned
    /\ fusion.input["video"] # None /\ fusion.input["video"][1].score = 500
    /\ fusion.input["audio"] # None /\ fusion.input["audio"][1].score = 600
    /\ fusion.input["lipsync"] # None
    /\ fusion.input["lipsync"][1].score = 800
    /\ fusion.out[1].concerns = <<ConcernOf("audio"), ConcernOf("lipsync")>>


\* C23: with all three modalities present and one positive confidence for
\* all, the returned fused score lies between the smallest and the largest
\* of the three scores; scores all 0.1 give a score below 0.3, the label
\* AUTHENTIC and no concern; scores 0.9/0.8/0.85 give a score above 0.7, a
\* label LIKELY_FAKE or FAKE, and the three concerns.
C23_BetweenMinAndMax ==
    LET in == fusion.input
        score == fusion.pre[1].score
        fused == fusion.out[1].overall_score
        EqualPositive ==
            /\ \A m \in Modalities : in[m] # None
            /\ \A m \in Modalities :
                /\ in[m][1].confidence = in["video"][1].confidence
                /\ in[m][1].confidence > 0
        ScoresAre(sv, sa, sl) ==
            /\ in["video"][1].score = sv
            /\ in["audio"][1].score = sa
            /\ in["lipsync"][1].score = sl
    IN (Returned /\ EqualPositive) =>
        /\ \E m \in Modalities : FLeq64(score[m], fused)
        /\ \E m \in Modalities : FLeq64(fused, score[m])
        /\ ScoresAre(100, 100, 100) =>
              /\ FLess64(fused, Double(3, 10))
              /\ fusion.out[1].label = "AUTHENTIC"
              /\ fusion.out[1].concerns = <<>>
        /\ ScoresAre(900, 800, 850) =>
              /\ FLess64(Double(7, 10), fused)
              /\ fusion.out[1].label \in {"LIKELY_FAKE", "FAKE"}
              /\ Len(fusion.out[1].concerns) = 3


\* --------------------------------------------------- the modality services
\* VideoForensicsService, AudioSpoofService and LipSyncService: one object
\* is constructed and called once (BaseInferenceService.__call__).  torch
\* and cv2 are the module flags TORCH_AVAILABLE and CV2_AVAILABLE, model
\* tells whether self.model is set.  Probabilities are in thousandths.
MaxUnits == 2

otherVars == <<job, created, mediaType, reports, req, sim, crun, call, fusion>>

\* Sequences over S of length at most n.
SeqUpTo(S, n) == UNION {[1..k -> S] : k \in 0..n}

\* np.random.uniform(0.05, 0.25), np.random.uniform(0.05, 0.2) and
\* np.random.uniform(0.0, 0.3): the ends of each range.
VideoFallbackLevels == {50, 250}
AudioFallbackLevels == {50, 200}
LipSyncDrawLevels == {0, 300}
\* The output of a loaded model, a sigmoid.
ModelProbLevels == {0, 500, 1000}

\* A frame of the video input: a numpy array, or a dict whose "path"
\* cv2.imread reads, or one it cannot read (imread then returns None).
VideoFrameKinds == {"array", "readable", "unreadable"}
VideoInputs == SeqUpTo(VideoFrameKinds, MaxUnits)

\* The audio input: neither key, an "audio_path" that does not exist, one
\* that exists, or a "waveform" array.
AudioInputs == {"none", "missing_path", "path", "waveform"}

\* The lip-sync input: frames (whether imread reads the path, and whether
\* the face detector finds a mouth; timestamp_ms is left to its default 0)
\* and transcript words (whether the word's window covers timestamp 0).
LipSyncInputs ==
    [frames : SeqUpTo([readable : BOOLEAN, has_mouth : BOOLEAN], MaxUnits),
     words : SeqUpTo([covers : BOOLEAN], MaxUnits)]

InputsOf(kind) ==
    CASE kind = "video" -> VideoInputs
      [] kind = "audio" -> AudioInputs
      [] kind = "lipsync" -> LipSyncInputs

\* load_model: what self.model can be afterwards.  Video: the custom or the
\* ViT model, or None when building it raised; audio: always a model;
\* lip-sync: a model only when model_path exists.  Without torch, None.
ModelsAfterLoad(kind, torch) ==
    IF ~torch THEN {FALSE}
    ELSE IF kind = "audio" THEN {TRUE} ELSE BOOLEAN

ServiceLoadModel ==
    /\ service.pc = "new"
    /\ \E model \in ModelsAfterLoad(service.kind, service.torch) :
          service' = [service EXCEPT !.pc = "input", !.model = model]
    /\ UNCHANGED otherVars

RECURSIVE SelectKinds(_, _)
SelectKinds(frames, kinds) ==
    IF frames = <<>> THEN <<>>
    ELSE (IF Head(frames) \in kinds THEN <<Head(frames)>> ELSE <<>>)
         \o SelectKinds(Tail(frames), kinds)

\* VideoForensicsService.preprocess on "frames": a dict with a path is read
\* with cv2.imread and converted with cv2.cvtColor when cv2 is there, and
\* dropped otherwise; an array is taken as it is.  cvtColor raises on the
\* None that imread returns for a file it cannot read.
VideoForensicsPreprocess ==
    /\ service.kind = "video" /\ service.pc = "input"
    /\ service' =
          IF service.cv2
             /\ \E i \in 1..Len(service.input) :
                   service.input[i] = "unreadable"
          THEN [service EXCEPT !.pc = "raised"]
          ELSE [service EXCEPT
                   !.pc = "preprocessed",
                   !.pre = Some(Len(SelectKinds(service.input,
                              IF service.cv2 THEN {"array", "readable"}
                              ELSE {"array"})))]
    /\ UNCHANGED otherVars

\* predict: one fake_probability per frame, simulated when there is no
\* torch or no model, the model's output otherwise.
VideoForensicsPredict ==
    /\ service.kind = "video" /\ service.pc = "preprocessed"
    /\ \E probs \in [1..service.pre[1] ->
                        IF ~service.torch \/ ~service.model
                        THEN VideoFallbackLevels ELSE ModelProbLevels] :
          service' = [service EXCEPT !.pc = "predicted", !.raw = Some(probs)]
    /\ UNCHANGED otherVars

SeqMax(xs) == CHOOSE x \in {xs[i] : i \in 1..Len(xs)} :
                 \A i \in 1..Len(xs) : xs[i] <= x

\* The entries of xs above the threshold, in order.
RECURSIVE Above(_, _)
Above(xs, threshold) ==
    IF xs = <<>> THEN <<>>
    ELSE (IF Head(xs) > threshold THEN <<Head(xs)>> ELSE <<>>)
         \o Above(Tail(xs), threshold)

FirstN(xs, n) == SubSeq(xs, 1, IF Len(xs) < n THEN Len(xs) ELSE n)

\* score = 0.6 * mean_prob + 0.3 * max_prob + 0.1 * (std_prob > 0.2), over
\* the common denominator 10000 * len(probs).
VideoScore(probs) ==
    Frac(6 * SumSeq(probs) + 3 * SeqMax(probs) * Len(probs)
           + (IF FLess(Frac(4, 100), Variance(probs))
              THEN 1000 * Len(probs) ELSE 0),
         10000 * Len(probs))

\* A result keeps score, confidence and the flagged units' scores.  The
\* confidence is base - sqrt(std2): video's 1 - std_prob has base 1 and
\* std2 the variance, every other confidence has std2 zero.
VideoForensicsResult(probs) ==
    IF probs = <<>>
    THEN [score |-> Zero, base |-> Zero, std2 |-> Zero, flagged |-> <<>>]
    ELSE [score |-> VideoScore(probs), base |-> One,
          std2 |-> Variance(probs),
          flagged |-> FirstN(Above(probs, 500), 10)]

VideoForensicsPostprocess ==
    /\ service.kind = "video" /\ service.pc = "predicted"
    /\ service' = [service EXCEPT
                      !.pc = "returned",
                      !.out = Some(VideoForensicsResult(service.raw[1]))]
    /\ UNCHANGED otherVars


\* The module of AudioSpoofService names nn.Module in the signature of
\* _create_simple_model.  Without torch the name nn is unbound: where
\* annotations are evaluated when the function is defined the import of
\* the module raises NameError, where they are evaluated lazily it does
\* not.
AudioSpoofImportFails ==
    /\ service.kind = "audio" /\ service.pc = "new" /\ ~service.torch
    /\ service' = [service EXCEPT !.pc = "raised"]
    /\ UNCHANGED otherVars

\* AudioSpoofService.preprocess: whether a waveform comes out.  A path that
\* does not exist gives none; one that exists is loaded with torchaudio,
\* and gives none without torch; a "waveform" array goes through
\* torch.from_numpy, a NameError when the import of torch had failed.
AudioSpoofPreprocess ==
    /\ service.kind = "audio" /\ service.pc = "input"
    /\ service' =
          IF service.input = "waveform" /\ ~service.torch
          THEN [service EXCEPT !.pc = "raised"]
          ELSE [service EXCEPT
                   !.pc = "preprocessed",
                   !.pre = Some(service.torch
                                /\ service.input \in {"path", "waveform"})]
    /\ UNCHANGED otherVars

\* predict: simulated when there is no waveform, no torch or no model.
AudioSpoofPredict ==
    /\ service.kind = "audio" /\ service.pc = "preprocessed"
    /\ \E prob \in (IF ~service.pre[1] \/ ~service.torch \/ ~service.model
                    THEN AudioFallbackLevels ELSE ModelProbLevels) :
          service' = [service EXCEPT !.pc = "predicted", !.raw = Some(prob)]
    /\ UNCHANGED otherVars

Abs(x) == IF x < 0 THEN -x ELSE x

\* score = prob, confidence = 1 - abs(prob - 0.5) * 2.
AudioSpoofResult(prob) ==
    [score |-> Frac(prob, 1000),
     base |-> Frac(1000 - Abs(prob - 500) * 2, 1000),
     std2 |-> Zero, flagged |-> <<>>]

AudioSpoofPostprocess ==
    /\ service.kind = "audio" /\ service.pc = "predicted"
    /\ service' = [service EXCEPT
                      !.pc = "returned",
                      !.out = Some(AudioSpoofResult(service.raw[1]))]
    /\ UNCHANGED otherVars

\* LipSyncService.preprocess: a mouth feature for every frame cv2.imread
\* reads ("if frame is not None"), none at all without cv2.
RECURSIVE MouthFeatures(_)
MouthFeatures(frames) ==
    IF frames = <<>> THEN <<>>
    ELSE (IF Head(frames).readable
          THEN <<[has_mouth |-> Head(frames).has_mouth]>> ELSE <<>>)
         \o MouthFeatures(Tail(frames))

LipSyncPreprocess ==
    /\ service.kind = "lipsync" /\ service.pc = "input"
    /\ service' = [service EXCEPT
                      !.pc = "preprocessed",
                      !.pre = Some([mouth_features |->
                                       IF service.cv2
                                       THEN MouthFeatures(service.input.frames)
                                       ELSE <<>>,
                                    words |-> service.input.words])]
    /\ UNCHANGED otherVars

RECURSIVE CountTrue(_)
CountTrue(bs) ==
    IF bs = <<>> THEN 0
    ELSE (IF Head(bs) THEN 1 ELSE 0) + CountTrue(Tail(bs))

\* The mismatch a word can get: every frame has timestamp 0, so the window
\* of a covering word holds all mouth features; 0.5 unless the mouth was
\* found in more than half of them, a draw from uniform(0.0, 0.3) then.
WordMismatches(mouth_features) ==
    IF 2 * CountTrue([i \in 1..Len(mouth_features) |->
                         mouth_features[i].has_mouth])
         > Len(mouth_features)
    THEN LipSyncDrawLevels ELSE {500}

\* predict: mismatch_scores of the words whose window holds a frame, and
\* the segments, the words with mismatch > 0.4.
LipSyncPredict ==
    /\ service.kind = "lipsync" /\ service.pc = "preprocessed"
    /\ LET mouth_features == service.pre[1].mouth_features
           words == service.pre[1].words
           covering == CountTrue([i \in 1..Len(words) |-> words[i].covers])
       IN IF mouth_features = <<>> \/ words = <<>>
          THEN service' = [service EXCEPT
                              !.pc = "predicted",
                              !.raw = Some([mismatch_scores |-> <<>>,
                                            segments |-> <<>>])]
          ELSE \E mismatch_scores \in
                    [1..covering -> WordMismatches(mouth_features)] :
                  service' = [service EXCEPT
                      !.pc = "predicted",
                      !.raw = Some([mismatch_scores |-> mismatch_scores,
                                    segments |-> Above(mismatch_scores, 400)])]
    /\ UNCHANGED otherVars

\* overall_mismatch = mean(mismatch_scores), or 0.0 for none;
\* confidence = 1 - score * 0.5; flagged_segments = segments[:5].
LipSyncResult(raw_output) ==
    LET n == Len(raw_output.mismatch_scores)
        total == SumSeq(raw_output.mismatch_scores)
    IN [score |-> IF n = 0 THEN Zero ELSE Frac(total, 1000 * n),
        base |-> IF n = 0 THEN One ELSE Frac(2000 * n - total, 2000 * n),
        std2 |-> Zero,
        flagged |-> FirstN(raw_output.segments, 5)]

LipSyncPostprocess ==
    /\ service.kind = "lipsync" /\ service.pc = "predicted"
    /\ service' = [service EXCEPT
                      !.pc = "returned",
                      !.out = Some(LipSyncResult(service.raw[1]))]
    /\ UNCHANGED otherVars

\* One service of one kind is constructed, in a process where torch and
\* cv2 were imported or not, and called on one input.
InitService ==
    /\ job = [j \in JobIds |-> NoJob]
    /\ created = 0
    /\ mediaType \in [MediaIds -> {"video"}]
    /\ reports = {}
    /\ req = [r \in Reqs |-> IdleReq]
    /\ sim = [j \in JobIds |-> NoSim]
    /\ crun = [c \in Workers |-> IdleRun]
    /\ call = NoCall
    /\ fusion = NoFusion
    /\ \E kind \in Modalities, torch \in BOOLEAN, cv2 \in BOOLEAN :
       \E input_data \in InputsOf(kind) :
          service = [NoService EXCEPT !.kind = kind, !.pc = "new",
                                      !.torch = torch, !.cv2 = cv2,
                                      !.input = input_data]

NextService ==
    \/ ServiceLoadModel
    \/ VideoForensicsPreprocess \/ VideoForensicsPredict
    \/ VideoForensicsPostprocess
    \/ AudioSpoofImportFails
    \/ AudioSpoofPreprocess \/ AudioSpoofPredict \/ AudioSpoofPostprocess
    \/ LipSyncPreprocess \/ LipSyncPredict \/ LipSyncPostprocess
SpecService == InitService /\ [][NextService]_vars

\* C24: a call of a modality service never raises, and the result it
\* returns has its score in [0,1] and its confidence in [0,1].
C24_BoundedAndNeverRaises ==
    /\ service.pc # "raised"
    /\ service.pc = "returned" =>
          LET out == service.out[1]
          IN /\ InUnit(out.score)
             /\ InUnit(out.base)
             /\ FLeq(out.std2, FMul(out.base, out.base))


\* ---------------------------------------------------------------- calibrate
\* The length bound of a validation set.
MaxSamples == 2

\* Validation samples: three modality scores in thousandths and a 0/1
\* ground-truth label.  With these score levels no candidate's weighted sum
\* falls on the boundary 0.5, so the rounding of the float weights that
\* np.arange produces cannot change a prediction.
SampleScoreLevels == {200, 900}
Samples ==
    [video_score : SampleScoreLevels, audio_score : SampleScoreLevels,
     lipsync_score : SampleScoreLevels, label : {0, 1}]
ValidationSets == SeqUpTo(Samples, MaxSamples)

\* np.arange(0.2, 0.7, 0.1) and np.arange(0.1, 0.5, 0.1), in hundredths.
VideoGrid == <<20, 30, 40, 50, 60>>
AudioGrid == <<10, 20, 30, 40>>

\* The triples the two loops visit, in iteration order, before the test
\* on l_w.
GridProduct ==
    [i \in 1..(Len(VideoGrid) * Len(AudioGrid)) |->
        LET v_w == VideoGrid[((i - 1) \div Len(AudioGrid)) + 1]
            a_w == AudioGrid[((i - 1) % Len(AudioGrid)) + 1]
        IN [video |-> v_w, audio |-> a_w, lipsync |-> 100 - v_w - a_w]]

\* "if l_w < 0.05: continue"
SearchedLipsync(weights) == weights.lipsync >= 5
GridWeights == SelectSeq(GridProduct, SearchedLipsync)

\* predicted = 1 if fused > 0.5 else 0; fused is in units of 1/100000.
Predicted(weights, sample) ==
    IF weights.video * sample.video_score
       + weights.audio * sample.audio_score
       + weights.lipsync * sample.lipsync_score > 50000
    THEN 1 ELSE 0

RECURSIVE CorrectCount(_, _)
CorrectCount(weights, validation_data) ==
    IF validation_data = <<>> THEN 0
    ELSE (IF Predicted(weights, Head(validation_data))
             = Head(validation_data).label THEN 1 ELSE 0)
         + CorrectCount(weights, Tail(validation_data))

\* accuracy = correct / len(validation_data) if validation_data else 0
Accuracy(weights, validation_data) ==
    IF validation_data = <<>> THEN Zero
    ELSE Frac(CorrectCount(weights, validation_data), Len(validation_data))

\* The grid search from candidate i on: "if accuracy > best_accuracy".
RECURSIVE GridSearch(_, _, _, _)
GridSearch(i, best_weights, best_accuracy, validation_data) ==
    IF i > Len(GridWeights) THEN best_weights
    ELSE \* the candidate's accuracy is computed before the comparison
         LET accuracy == CHOOSE a \in {Accuracy(GridWeights[i],
                                                validation_data)} : TRUE
         IN IF FLess(best_accuracy, accuracy)
            THEN GridSearch(i + 1, GridWeights[i], accuracy,
                            validation_data)
            ELSE GridSearch(i + 1, best_weights, best_accuracy,
                            validation_data)

\* best_weights starts as a copy of DEFAULT_WEIGHTS, best_accuracy as 0.0.
BestWeights(validation_data) ==
    GridSearch(1, DEFAULT_WEIGHTS, Zero, validation_data)

\* calibrate(validation_data): the search, then "self.weights =
\* best_weights" and the return of the same triple.
Calibrate ==
    /\ fusion.pc \in {"input", "returned"}
    /\ fusion.calibrated = None
    /\ \E validation_data \in ValidationSets :
        \E best_weights \in {BestWeights(validation_data)} :
          fusion' = [fusion EXCEPT !.weights = best_weights,
                                   !.validation = Some(validation_data),
                                   !.calibrated = Some(best_weights)]
    /\ UNCHANGED pipelineVars

\* The caller repeats its call on the same input after calibrate has
\* returned; the earlier result is kept for comparison.
ServiceCallAgain ==
    /\ fusion.pc = "returned"
    /\ fusion.calibrated # None
    /\ fusion.before = None
    /\ fusion' = [fusion EXCEPT !.pc = "input", !.before = fusion.out,
                                !.pre = None, !.raw = None, !.out = None]
    /\ UNCHANGED pipelineVars

\* The inputs of the repeated call: every modality present with full
\* confidence.
CalibrateCallInputs ==
    {[m \in Modalities |-> Some([score |-> s[m], confidence |-> 1000])] :
        s \in [Modalities -> SampleScoreLevels]}

\* A service with the default weights, about to be called once.
InitCalibrate ==
    /\ job = [j \in JobIds |-> NoJob]
    /\ created = 0
    /\ mediaType \in [MediaIds -> {"video"}]
    /\ reports = {}
    /\ req = [r \in Reqs |-> IdleReq]
    /\ sim = [j \in JobIds |-> NoSim]
    /\ crun = [c \in Workers |-> IdleRun]
    /\ call = NoCall
    /\ service = NoService
    /\ \E input_data \in CalibrateCallInputs :
          fusion = [NoFusion EXCEPT !.pc = "input", !.input = input_data]

NextCalibrate ==
    \/ ServicePreprocess \/ ServicePredict \/ ServicePostprocess
    \/ Calibrate
    \/ ServiceCallAgain
SpecCalibrate == InitCalibrate /\ [][NextCalibrate]_vars

\* C25: calibrate is a pure function of the validation set: once it has
\* returned, self.weights are still the weights the service was built
\* with, and the call repeated after calibrate returns the fused score the
\* same call returned before it.
C25_CalibrateIsPure ==
    /\ fusion.calibrated # None => fusion.weights = DEFAULT_WEIGHTS
    /\ (Returned /\ fusion.before # None) =>
          fusion.out[1].overall_score = fusion.before[1].overall_score


\* C26: for every validation set, the triple calibrate returns is one of
\* the searched grid, its accuracy is maximal over the grid, and no triple
\* earlier in iteration order has the same accuracy.
C26_ReturnsFirstBestOfGrid ==
    fusion.calibrated # None =>
        LET best_weights == fusion.calibrated[1]
            validation_data == fusion.validation[1]
            best_accuracy == Accuracy(best_weights, validation_data)
        IN \E i \in 1..Len(GridWeights) :
              /\ GridWeights[i] = best_weights
              /\ \A k \in 1..Len(GridWeights) :
                    FLeq(Accuracy(GridWeights[k], validation_data),
                         best_accuracy)
              /\ \A k \in 1..(i - 1) :
                    FLess(Accuracy(GridWeights[k], validation_data),
                          best_accuracy)


\* --------------------------------------------------- claims on validation
\* The run of worker c has left validate_media by its exception handler.
ValidationFailed(c) ==
    /\ crun[c].pc \in {"pipeline_except", "failed"}
    /\ crun[c].attempt = VALIDATING

\* C27: when validate_media raises for a missing file or a hash mismatch
\* (an exception with a message), that step leaves the job FAILED with the
\* message stored; afterwards the run only executes the pipeline's own
\* handler, which writes FAILED with the same message again: validation
\* is not executed a second time and the run never starts EXTRACTING.
C27_ValidationFailsOnce ==
    [][\A c \in Workers :
        /\ (crun[c].pc = "validate_work" /\ crun'[c].pc = "pipeline_except"
            /\ crun'[c].err # "") =>
              /\ job'[JobOf(c)].status = FAILED
              /\ job'[JobOf(c)].error_message = Some(crun'[c].err)
        /\ ValidationFailed(c) =>
              /\ ValidationFailed(c)'
              /\ crun'[c].job = crun[c].job
              /\ crun'[c] # crun[c] =>
                    /\ crun'[c].pc = "failed"
                    /\ call'.to = FAILED
                    /\ crun[c].err # "" =>
                          /\ job'[JobOf(c)].status = FAILED
                          /\ job'[JobOf(c)].error_message
                                = Some(crun[c].err)]_vars

\* A run whose validation raised with a message has ended: the job is
\* FAILED with that message.
C27_Witness ==
    \E c \in Workers :
        /\ crun[c].pc = "failed"
        /\ crun[c].attempt = VALIDATING
        /\ crun[c].err # ""
        /\ job[JobOf(c)].status = FAILED
        /\ job[JobOf(c)].stage = FAILED
        /\ job[JobOf(c)].error_message = Some(crun[c].err)


\* C28: every flagged list a modality service returns holds only units
\* whose own score is strictly greater than 0.5.
C28_FlaggedAboveHalf ==
    service.pc = "returned" =>
        \A i \in 1..Len(service.out[1].flagged) :
            service.out[1].flagged[i] > 500


\* C29: a job's Report is created only in a step taken while the job's
\* persisted stage is REPORT, and whenever a step leaves a job with status
\* DONE the job's Report exists.
C29_ReportBeforeDone ==
    [][\A j \in JobIds :
        /\ (j \in reports' /\ j \notin reports) => job[j].stage = REPORT
        /\ job'[j].status = DONE => j \in reports']_vars


\* C30: whatever the placeholder scoring of the worker tasks draws, the
\* overall_score run_fusion commits is below 0.6 and the label it commits
\* is never FAKE.
C30_WorkerNeverFake ==
    [][\A c \in Workers :
        (crun[c].pc = "fusion_write" /\ crun'[c].pc = "fusion_end") =>
            /\ job'[JobOf(c)].overall_score # None
            /\ job'[JobOf(c)].overall_score[1] < LikelyFakeBelow
            /\ job'[JobOf(c)].label # None
            /\ job'[JobOf(c)].label # Some("FAKE")]_vars

\* run_fusion has committed the largest score the draws allow, 0.43, with
\* the label LIKELY_FAKE.
C30_Witness ==
    \E c \in Workers :
        /\ crun[c].pc = "fusion_end"
        /\ job[JobOf(c)].overall_score = Some(430)
        /\ job[JobOf(c)].label = Some("LIKELY_FAKE")
        /\ job[JobOf(c)].stage = FUSION

=============================================================================
